---- MODULE Spec2Model ----
(***************************************************************************)
(* Model of the soundkit manifest generator (scripts/generate-manifest.js, *)
(* class SoundkitScanner): filename parsing, kit aggregation over the      *)
(* instrument subdirectories, statistics and manifest generation; and of   *)
(* the accessor library (index.js, class SoundkitManager): the lookup maps, *)
(* the read accessors and loadSoundkit; and of the catalog page             *)
(* (soundkit-catalog.js): its search, filter and sort listeners.           *)
(*                                                                         *)
(* JavaScript strings are modelled as sequences of one-character strings,  *)
(* so that endsWith, lastIndexOf, substring, trim, toLowerCase and the     *)
(* regular-expression replacements of generateId are computed character    *)
(* by character, as the code computes them.                                *)
(***************************************************************************)
EXTENDS Integers, Sequences, FiniteSets, TLC

VARIABLES
    config,      \* this.config: instruments (the vocabulary) and fileExtension
    fs,          \* the samples directory: subdirectory name -> readdir outcome
    soundkits,   \* this.soundkits: the Map, as a sequence in insertion order
    pc,          \* position of run()/scan()
    i,           \* index of the for..of loop of scan() over config.instruments
    manifest,    \* the manifest object built by run()
    outputFile,  \* content of config.outputPath
    log,         \* console.warn / console.error records written so far
    filename,    \* argument of a direct call of parseFilename
    parsed,      \* value returned by that call
    manager,     \* a SoundkitManager: manifest, baseUrl, samplesPath and the two Maps
    call,        \* the last accessor call made on the manager, with its result
    ctorOptions, \* the options argument that manager was constructed with
    load,        \* a loadSoundkit call in progress: its tasks, buffers and outcome
    scanHistory, \* per returned call of scan(): the tree it read and the kits it returned
    state,       \* the catalog page's state object: kits, filtered kits, sort, filter, query
    searchInput  \* the catalog page's search box: its value, and whether it has the focus

\* the state of the catalog page (soundkit-catalog.js)
catalogVars == <<state, searchInput>>

\* the state of the accessor library (index.js), and of the page that uses it
accessorVars == <<manager, ctorOptions, call, load, catalogVars>>

vars == <<config, fs, soundkits, pc, i, manifest, outputFile, log, filename, parsed,
          manager, ctorOptions, call, load, scanHistory, state, searchInput>>

----------------------------------------------------------------------------
(* Bounds of the model *)

\* largest number of files in a generated samples tree
MaxFiles == 2
\* largest number of subdirectories whose readdir fails in a generated tree
MaxFailing == 1
\* largest number of tokens a generated parseFilename argument is built from
MaxTokens == 5
\* largest number of calls of scan() on one scanner
MaxScans == 2

----------------------------------------------------------------------------
(* JavaScript strings *)

UpperLetters ==
    <<"A","B","C","D","E","F","G","H","I","J","K","L","M",
      "N","O","P","Q","R","S","T","U","V","W","X","Y","Z">>

LowerLetters ==
    <<"a","b","c","d","e","f","g","h","i","j","k","l","m",
      "n","o","p","q","r","s","t","u","v","w","x","y","z">>

Digits == <<"0","1","2","3","4","5","6","7","8","9">>

\* The characters of the model in UTF-16 code unit order.
CodeUnitOrder == <<" ", "-", ".", "/">> \o Digits \o UpperLetters \o LowerLetters

IndexIn(seq, c) == CHOOSE k \in 1..Len(seq) : seq[k] = c

InSeq(seq, c) == \E k \in 1..Len(seq) : seq[k] = c

CharCode(c) == IndexIn(CodeUnitOrder, c)

SetMax(S) == CHOOSE x \in S : \A y \in S : y <= x

SetMin(S) == CHOOSE x \in S : \A y \in S : x <= y

\* String.prototype.endsWith
EndsWith(s, suffix) ==
    /\ Len(s) >= Len(suffix)
    /\ SubSeq(s, Len(s) - Len(suffix) + 1, Len(s)) = suffix

\* String.prototype.startsWith
StartsWith(s, prefix) ==
    /\ Len(s) >= Len(prefix)
    /\ SubSeq(s, 1, Len(prefix)) = prefix

\* String.prototype.substring(from, to), 0-based, to exclusive
Substring(s, from, to) == SubSeq(s, from + 1, to)

\* String.prototype.lastIndexOf: 0-based index of the last occurrence, or -1
LastIndexOf(s, pat) ==
    LET hits == {k \in 0..(Len(s) - Len(pat)) : SubSeq(s, k + 1, k + Len(pat)) = pat}
    IN  IF hits = {} THEN -1 ELSE SetMax(hits)

WhiteSpace == {" "}

\* String.prototype.trim
Trim(s) ==
    LET keep == {k \in 1..Len(s) : s[k] \notin WhiteSpace}
    IN  IF keep = {} THEN <<>> ELSE SubSeq(s, SetMin(keep), SetMax(keep))

LowerChar(c) == IF InSeq(UpperLetters, c) THEN LowerLetters[IndexIn(UpperLetters, c)] ELSE c

\* String.prototype.toLowerCase
ToLowerCase(s) == [k \in 1..Len(s) |-> LowerChar(s[k])]

\* comparison of two strings by UTF-16 code units (Array.prototype.sort default)
RECURSIVE CodeUnitLess(_, _)
CodeUnitLess(a, b) ==
    IF b = <<>> THEN FALSE
    ELSE IF a = <<>> THEN TRUE
    ELSE IF a[1] # b[1] THEN CharCode(a[1]) < CharCode(b[1])
    ELSE CodeUnitLess(Tail(a), Tail(b))

----------------------------------------------------------------------------
(* CONFIG *)

kick  == <<"k","i","c","k">>
snare == <<"s","n","a","r","e">>
hihat == <<"h","i","h","a","t">>
clap  == <<"c","l","a","p">>
crash == <<"c","r","a","s","h">>
open  == <<"o","p","e","n">>
rim   == <<"r","i","m">>
bell  == <<"b","e","l","l">>

WAV == <<".","w","a","v">>

\* the default base URL, kept as one unsplit chunk of characters
GithubPagesBaseUrl == <<"https://casa24records.github.io/Drum-Machine-PRO">>

\* the default configuration
CONFIG ==
    [instruments        |-> <<kick, snare, hihat, clap, crash, open, rim, bell>>,
     fileExtension      |-> WAV,
     githubPagesBaseUrl |-> GithubPagesBaseUrl]

\* a configuration passed to the constructor: a three-instrument vocabulary
SmallConfig ==
    [instruments        |-> <<kick, snare, hihat>>,
     fileExtension      |-> WAV,
     githubPagesBaseUrl |-> GithubPagesBaseUrl]

Null == [isNull |-> TRUE]

SEP == <<" ", "-", " ">>

----------------------------------------------------------------------------
(* SoundkitScanner.parseFilename *)

\* lastIndexOf returning the first occurrence instead of the last
ParseSplitIndexFirst(nameWithoutExt) ==
    LET hits == {k \in 0..(Len(nameWithoutExt) - 3) : SubSeq(nameWithoutExt, k + 1, k + 3) = SEP}
    IN  IF hits = {} THEN -1 ELSE SetMin(hits)

ParseSplitIndex(nameWithoutExt) == LastIndexOf(nameWithoutExt, SEP)

\* the tag accepted without the test against the vocabulary
VocabularyAcceptsAny(cfg, instrument) == TRUE

VocabularyIncludes(cfg, instrument) == InSeq(cfg.instruments, instrument)

parseFilename(cfg, name) ==
    IF ~EndsWith(name, cfg.fileExtension) THEN Null
    ELSE
        LET nameWithoutExt  == SubSeq(name, 1, Len(name) - Len(cfg.fileExtension))
            lastHyphenIndex == ParseSplitIndex(nameWithoutExt)
        IN  IF lastHyphenIndex = -1 THEN Null
            ELSE
                LET soundkitName == Trim(Substring(nameWithoutExt, 0, lastHyphenIndex))
                    instrument   == ToLowerCase(Trim(Substring(nameWithoutExt,
                                        lastHyphenIndex + 3, Len(nameWithoutExt))))
                IN  IF ~VocabularyIncludes(cfg, instrument) THEN Null
                    ELSE [soundkitName |-> soundkitName, instrument |-> instrument]

\* parseFilename writing nothing to the console
parseSilently(cfg, name) == {}

\* the console.warn of parseFilename: "format", "instrument" or none
parseWarning(cfg, name) ==
    IF ~EndsWith(name, cfg.fileExtension) THEN {}
    ELSE
        LET nameWithoutExt  == SubSeq(name, 1, Len(name) - Len(cfg.fileExtension))
            lastHyphenIndex == ParseSplitIndex(nameWithoutExt)
        IN  IF lastHyphenIndex = -1 THEN {<<"warn", "Invalid filename format", name>>}
            ELSE IF parseFilename(cfg, name) = Null
                 THEN {<<"warn", "Unknown instrument", name>>}
                 ELSE {}

----------------------------------------------------------------------------
(* JavaScript numbers that are quotients of integers, as exact fractions *)

RECURSIVE Gcd(_, _)
Gcd(a, b) == IF b = 0 THEN a ELSE Gcd(b, a % b)

\* the fraction n/d in lowest terms (n >= 0, d > 0)
Rat(n, d) == LET g == Gcd(n, d) IN [num |-> n \div g, den |-> d \div g]

Num(n) == [num |-> n, den |-> 1]

RatAdd(x, y) == Rat(x.num * y.den + y.num * x.den, x.den * y.den)

RatLeq(x, y) == x.num * y.den <= y.num * x.den

RECURSIVE SumSeq(_)
SumSeq(s) == IF s = <<>> THEN 0 ELSE Head(s) + SumSeq(Tail(s))

RECURSIVE RatSum(_)
RatSum(s) == IF s = <<>> THEN Num(0) ELSE RatAdd(Head(s), RatSum(Tail(s)))

Range(s) == {s[k] : k \in 1..Len(s)}

----------------------------------------------------------------------------
(* SoundkitScanner.generateId *)

IsSlugChar(c) == InSeq(LowerLetters, c) \/ InSeq(Digits, c)

\* .replace(/[^a-z0-9]+/g, '-'): every maximal run of other characters becomes one '-'
RECURSIVE ReplaceNonAlnumRuns(_)
ReplaceNonAlnumRuns(s) ==
    IF s = <<>> THEN <<>>
    ELSE IF IsSlugChar(s[1]) THEN <<s[1]>> \o ReplaceNonAlnumRuns(Tail(s))
    ELSE IF Len(s) >= 2 /\ ~IsSlugChar(s[2]) THEN ReplaceNonAlnumRuns(Tail(s))
    ELSE <<"-">> \o ReplaceNonAlnumRuns(Tail(s))

\* .replace(/^-|-$/g, ''): one leading and one trailing '-' are removed
StripEdgeHyphens(s) ==
    LET a == IF s # <<>> /\ s[1] = "-" THEN Tail(s) ELSE s
    IN  IF a # <<>> /\ a[Len(a)] = "-" THEN SubSeq(a, 1, Len(a) - 1) ELSE a

generateId(name) == StripEdgeHyphens(ReplaceNonAlnumRuns(ToLowerCase(name)))

----------------------------------------------------------------------------
(* SoundkitScanner.scan *)

\* index of the Map entry with this key, 0 when the Map has none
KitIndex(kits, name) ==
    IF \E k \in 1..Len(kits) : kits[k].name = name
    THEN CHOOSE k \in 1..Len(kits) : kits[k].name = name
    ELSE 0

NewKit(name) ==
    [name                 |-> name,
     id                   |-> generateId(name),
     instruments          |-> <<>>,
     completeness         |-> Num(0),
     availableInstruments |-> <<>>]

\* obj[key] = value on a JavaScript object
SetProperty(obj, key, value) ==
    [k \in (DOMAIN obj) \cup {key} |-> IF k = key THEN value ELSE obj[k]]

SamplePath(instrument, name) == instrument \o <<"/">> \o name

\* the filter at the head of the inner loop of scan
SkipsFile(cfg, name) == ~EndsWith(name, cfg.fileExtension) \/ StartsWith(name, <<".">>)

\* the body of the inner loop with the kit record set anew for every file, an
\* earlier record of the same name overwritten
ScanFileOverwriting(cfg, kits, instrument, name) ==
    IF SkipsFile(cfg, name) THEN kits
    ELSE
        LET p == parseFilename(cfg, name)
        IN  IF p = Null THEN kits
            ELSE
                LET soundkitName == p.soundkitName
                    kits1 == IF KitIndex(kits, soundkitName) = 0
                             THEN Append(kits, NewKit(soundkitName))
                             ELSE [kits EXCEPT ![KitIndex(kits, soundkitName)] = NewKit(soundkitName)]
                    at    == KitIndex(kits1, soundkitName)
                    kit   == kits1[at]
                IN  [kits1 EXCEPT ![at] =
                        [kit EXCEPT
                            !.instruments = SetProperty(kit.instruments, instrument,
                                                        SamplePath(instrument, name)),
                            !.availableInstruments = Append(kit.availableInstruments, instrument)]]

\* the body of the inner loop of scan for one file of subdirectory `instrument`
ScanFile(cfg, kits, instrument, name) ==
    IF SkipsFile(cfg, name) THEN kits
    ELSE
        LET p == parseFilename(cfg, name)
        IN  IF p = Null THEN kits
            ELSE
                LET soundkitName == p.soundkitName
                    kits1 == IF KitIndex(kits, soundkitName) = 0
                             THEN Append(kits, NewKit(soundkitName))
                             ELSE kits
                    at    == KitIndex(kits1, soundkitName)
                    kit   == kits1[at]
                IN  [kits1 EXCEPT ![at] =
                        [kit EXCEPT
                            !.instruments = SetProperty(kit.instruments, instrument,
                                                        SamplePath(instrument, name)),
                            !.availableInstruments = Append(kit.availableInstruments, instrument)]]

\* the inner loop of scan over one directory listing
RECURSIVE ScanFiles(_, _, _, _)
ScanFiles(cfg, kits, instrument, files) ==
    IF files = <<>> THEN kits
    ELSE ScanFiles(cfg, ScanFile(cfg, kits, instrument, Head(files)), instrument, Tail(files))

\* what the inner loop writes to the console for one directory listing
ScanWarnings(cfg, files) ==
    UNION {parseWarning(cfg, files[k]) : k \in {j \in 1..Len(files) : ~SkipsFile(cfg, files[j])}}

\* the iteration with a failing readdir emptying the Map
ScanDirectoryKitsDropping(cfg, tree, kits, instrument) ==
    IF tree[instrument].code = "OK"
    THEN ScanFiles(cfg, kits, instrument, tree[instrument].files)
    ELSE <<>>

\* one iteration of the outer loop of scan: readdir and the inner loop, or the catch
ScanDirectoryKits(cfg, tree, kits, instrument) ==
    IF tree[instrument].code = "OK"
    THEN ScanFiles(cfg, kits, instrument, tree[instrument].files)
    ELSE kits

ScanDirectoryLog(cfg, tree, instrument) ==
    IF tree[instrument].code = "OK" THEN ScanWarnings(cfg, tree[instrument].files)
    ELSE IF tree[instrument].code # "ENOENT"
         THEN {<<"error", "Error scanning folder", instrument>>}
         ELSE {}

\* [...new Set(array)]: the first occurrence of every element, in order
RECURSIVE Dedupe(_)
Dedupe(s) ==
    IF s = <<>> THEN <<>>
    ELSE LET front == Dedupe(SubSeq(s, 1, Len(s) - 1))
         IN  IF s[Len(s)] \in Range(front) THEN front ELSE Append(front, s[Len(s)])

\* insertion of a string into a sorted array, after the elements that are not greater
RECURSIVE InsertTag(_, _)
InsertTag(sorted, x) ==
    IF sorted = <<>> THEN <<x>>
    ELSE IF CodeUnitLess(x, sorted[1]) THEN <<x>> \o sorted
    ELSE <<sorted[1]>> \o InsertTag(Tail(sorted), x)

\* Array.prototype.sort() without a comparator
RECURSIVE SortTags(_)
SortTags(s) ==
    IF s = <<>> THEN <<>> ELSE InsertTag(SortTags(SubSeq(s, 1, Len(s) - 1)), s[Len(s)])

\* the array without the deduplication
AvailableSortedOnly(tags) == SortTags(tags)

FinalAvailable(tags) == SortTags(Dedupe(tags))

\* the percentage taken of a vocabulary of eight tags, whatever the configuration
CompletenessOfEight(cfg, available) == Rat(Len(available) * 100, 8)

\* (availableInstruments.length / instruments.length) * 100
Completeness(cfg, available) == Rat(Len(available) * 100, Len(cfg.instruments))

\* the forEach at the end of scan, for one kit
FinalizeKit(cfg, kit) ==
    LET available == FinalAvailable(kit.availableInstruments)
    IN  [kit EXCEPT !.availableInstruments = available,
                    !.completeness = Completeness(cfg, available)]

FinalizeKits(cfg, kits) == [k \in 1..Len(kits) |-> FinalizeKit(cfg, kits[k])]

\* the whole of scan over a tree, subdirectories visited in the order `order`
RECURSIVE ScanDirectories(_, _, _, _)
ScanDirectories(cfg, tree, kits, order) ==
    IF order = <<>> THEN kits
    ELSE ScanDirectories(cfg, tree, ScanDirectoryKits(cfg, tree, kits, Head(order)), Tail(order))

ScanResult(cfg, tree, order) == FinalizeKits(cfg, ScanDirectories(cfg, tree, <<>>, order))

----------------------------------------------------------------------------
(* SoundkitScanner.generateStatistics, generateManifest, run *)

\* collation weights of String.prototype.localeCompare: punctuation, digits, letters
CollationOrder == <<" ", "-", ".", "/">> \o Digits \o LowerLetters

PrimaryWeight(c) == IndexIn(CollationOrder, LowerChar(c))

\* comparison at the primary level: letters compared without their case
RECURSIVE PrimaryCompare(_, _)
PrimaryCompare(a, b) ==
    IF a = <<>> /\ b = <<>> THEN 0
    ELSE IF a = <<>> THEN -1
    ELSE IF b = <<>> THEN 1
    ELSE IF PrimaryWeight(a[1]) < PrimaryWeight(b[1]) THEN -1
    ELSE IF PrimaryWeight(a[1]) > PrimaryWeight(b[1]) THEN 1
    ELSE PrimaryCompare(Tail(a), Tail(b))

\* comparison at the case level of two strings equal at the primary level:
\* at the first difference the lowercase letter sorts first
RECURSIVE CaseCompare(_, _)
CaseCompare(a, b) ==
    IF a = <<>> THEN 0
    ELSE IF a[1] = b[1] THEN CaseCompare(Tail(a), Tail(b))
    ELSE IF InSeq(LowerLetters, a[1]) THEN -1 ELSE 1

\* a.localeCompare(b)
localeCompare(a, b) ==
    LET p == PrimaryCompare(a, b) IN IF p # 0 THEN p ELSE CaseCompare(a, b)

RECURSIVE InsertKit(_, _)
InsertKit(sorted, kit) ==
    IF sorted = <<>> THEN <<kit>>
    ELSE IF localeCompare(kit.name, sorted[1].name) < 0 THEN <<kit>> \o sorted
    ELSE <<sorted[1]>> \o InsertKit(Tail(sorted), kit)

\* the array kept in the order of insertion into the Map
KeptInMapOrder(kits) == kits

\* .sort((a, b) => a.name.localeCompare(b.name)), a stable sort
RECURSIVE SortKitsByName(_)
SortKitsByName(kits) ==
    IF kits = <<>> THEN <<>>
    ELSE InsertKit(SortKitsByName(SubSeq(kits, 1, Len(kits) - 1)), kits[Len(kits)])

\* number of elements of the array equal to x
CountIn(s, x) == Cardinality({k \in 1..Len(s) : s[k] = x})

\* stats.instrumentCoverage[inst] after the forEach over the kits
CoverageOf(kits, inst) ==
    SumSeq([k \in 1..Len(kits) |-> CountIn(kits[k].availableInstruments, inst)])

\* the counter of complete kits incremented for every kit
CompleteCountAll(kits) == Len(kits)

\* stats.completeSoundkits after the forEach over the kits
CompleteCount(kits) == Cardinality({k \in 1..Len(kits) : kits[k].completeness = Num(100)})

\* soundkits.reduce(...) / soundkits.length, or 0
AverageCompleteness(kits) ==
    IF Len(kits) > 0
    THEN LET sum == RatSum([k \in 1..Len(kits) |-> kits[k].completeness])
         IN  Rat(sum.num, sum.den * Len(kits))
    ELSE Num(0)

generateStatistics(cfg, kits) ==
    [totalFiles          |-> SumSeq([k \in 1..Len(kits) |-> Len(kits[k].availableInstruments)]),
     instrumentCoverage  |-> [inst \in Range(cfg.instruments) |-> CoverageOf(kits, inst)],
     completeSoundkits   |-> CompleteCount(kits),
     averageCompleteness |-> AverageCompleteness(kits)]

\* config.githubPagesBaseUrl || null
BaseUrlOrNull(cfg) == IF cfg.githubPagesBaseUrl = <<>> THEN Null ELSE cfg.githubPagesBaseUrl

generateManifest(cfg, kits) ==
    LET soundkitsArray == SortKitsByName(kits)
    IN  [version        |-> "1.0.0",
         generated      |-> "now",
         totalSoundkits |-> Len(soundkitsArray),
         instruments    |-> cfg.instruments,
         baseUrl        |-> BaseUrlOrNull(cfg),
         soundkits      |-> soundkitsArray,
         statistics     |-> generateStatistics(cfg, soundkitsArray)]

\* the empty manifest with statistics written out, the coverage map left empty
EmptyManifestNoCoverage(cfg) ==
    [version        |-> "1.0.0",
     generated      |-> "now",
     totalSoundkits |-> 0,
     instruments    |-> cfg.instruments,
     baseUrl        |-> BaseUrlOrNull(cfg),
     soundkits      |-> <<>>,
     statistics     |-> [totalFiles |-> 0, instrumentCoverage |-> <<>>,
                         completeSoundkits |-> 0, averageCompleteness |-> Num(0)]]

\* emptyManifest of run
EmptyManifest(cfg) ==
    [version        |-> "1.0.0",
     generated      |-> "now",
     totalSoundkits |-> 0,
     instruments    |-> cfg.instruments,
     baseUrl        |-> BaseUrlOrNull(cfg),
     soundkits      |-> <<>>,
     statistics     |-> generateStatistics(cfg, <<>>)]

----------------------------------------------------------------------------
(* The samples directory trees the scanner is run on *)

ExistingDir(files) == [code |-> "OK", files |-> files]

FailingDir(code) == [code |-> code, files |-> <<>>]

KitA == <<"A">>

\* file names found in the subdirectories of the generated trees
FilePool ==
    { KitA \o SEP \o kick \o WAV,                            \* "A - kick.wav"
      KitA \o SEP \o snare \o WAV,                           \* "A - snare.wav"
      KitA \o SEP \o hihat \o WAV,                           \* "A - hihat.wav"
      KitA \o SEP \o <<"B">> \o SEP \o kick \o WAV,          \* "A - B - kick.wav"
      <<"a">> \o SEP \o <<"K","I","C","K">> \o WAV,          \* "a - KICK.wav"
      <<".">> \o KitA \o SEP \o kick \o WAV,                 \* ".A - kick.wav"
      KitA \o WAV,                                           \* "A.wav"
      KitA \o SEP \o <<"B">> \o WAV,                         \* "A - B.wav"
      KitA \o SEP \o kick \o <<".","W","A","V">> }           \* "A - kick.WAV"

\* the directory listings of exactly n distinct file names, in every order
RECURSIVE ListingsOfLen(_)
ListingsOfLen(n) ==
    IF n = 0 THEN {<<>>}
    ELSE UNION {{Append(l, f) : f \in FilePool \ Range(l)} : l \in ListingsOfLen(n - 1)}

\* the readdir outcomes of n subdirectories holding at most `files` files in all,
\* at most `failing` of them failing (missing, or unreadable)
RECURSIVE DirOutcomes(_, _, _)
DirOutcomes(n, files, failing) ==
    IF n = 0 THEN {<<>>}
    ELSE
        UNION ({{<<ExistingDir(l)>> \o rest : rest \in DirOutcomes(n - 1, files - Len(l), failing)} :
                    l \in UNION {ListingsOfLen(k) : k \in 0..files}}
               \cup
               (IF failing = 0 THEN {}
                ELSE {{<<FailingDir(code)>> \o rest : rest \in DirOutcomes(n - 1, files, failing - 1)} :
                        code \in {"ENOENT", "EACCES"}}))

TreeOf(cfg, outcomes) ==
    [d \in Range(cfg.instruments) |-> outcomes[IndexIn(cfg.instruments, d)]]

GeneratedTrees(cfg) ==
    {TreeOf(cfg, o) : o \in DirOutcomes(Len(cfg.instruments), MaxFiles, MaxFailing)}

BatmanBegins == <<"B","a","t","m","a","n"," ","B","e","g","i","n","s">>

\* "Batman Begins - kick.wav" in kick/ and "Batman Begins - snare.wav" in snare/
BatmanTree ==
    [d \in Range(CONFIG.instruments) |->
        IF d \in {kick, snare} THEN ExistingDir(<<BatmanBegins \o SEP \o d \o WAV>>)
        ELSE ExistingDir(<<>>)]

\* one kit with a file in every subdirectory of the default vocabulary
FullKitTree ==
    [d \in Range(CONFIG.instruments) |-> ExistingDir(<<KitA \o SEP \o d \o WAV>>)]

\* kit "A" with a kick only beside the Batman Begins kit with kick and snare
TwoKitsTree ==
    [d \in Range(CONFIG.instruments) |->
        IF d = kick THEN ExistingDir(<<KitA \o SEP \o d \o WAV, BatmanBegins \o SEP \o d \o WAV>>)
        ELSE IF d = snare THEN ExistingDir(<<BatmanBegins \o SEP \o d \o WAV>>)
        ELSE ExistingDir(<<>>)]

\* kick/ lists a hidden file, a text file and two malformed names before a sample
JunkTree ==
    [d \in Range(CONFIG.instruments) |->
        IF d = kick
        THEN ExistingDir(<< <<".">> \o KitA \o WAV,                    \* ".A.wav"
                            KitA \o <<".","t","x","t">>,               \* "A.txt"
                            KitA \o WAV,                               \* "A.wav"
                            KitA \o SEP \o <<"B">> \o WAV,             \* "A - B.wav"
                            KitA \o SEP \o kick \o WAV >>)             \* "A - kick.wav"
        ELSE ExistingDir(<<>>)]

\* kick/ lists " - kick.wav", snare/ lists "- - snare.wav"
NamelessTree ==
    [d \in Range(CONFIG.instruments) |->
        IF d = kick THEN ExistingDir(<<SEP \o d \o WAV>>)
        ELSE IF d = snare THEN ExistingDir(<<<<"-">> \o SEP \o d \o WAV>>)
        ELSE ExistingDir(<<>>)]

\* a samples directory without any subdirectory
MissingTree(cfg) == [d \in Range(cfg.instruments) |-> FailingDir("ENOENT")]

\* a samples directory whose subdirectories are all empty
EmptyTree(cfg) == [d \in Range(cfg.instruments) |-> ExistingDir(<<>>)]

\* the trees a scanner with configuration cfg is run on: every generated tree for
\* the small vocabulary, the example trees for the default one
Trees(cfg) ==
    IF cfg = SmallConfig
    THEN GeneratedTrees(cfg) \cup {MissingTree(cfg)}
    ELSE {BatmanTree, FullKitTree, TwoKitsTree, JunkTree, NamelessTree,
          MissingTree(cfg), EmptyTree(cfg)}

----------------------------------------------------------------------------
(* run(): scan, then the manifest, then saveManifest *)

Init ==
    /\ config \in {SmallConfig, CONFIG}
    /\ fs \in Trees(config)
    /\ soundkits = <<>>
    /\ pc = "idle"
    /\ i = 0
    /\ manifest = Null
    /\ outputFile = Null
    /\ log = {}
    /\ filename = <<>>
    /\ parsed = Null
    /\ manager = Null
    /\ call = Null
    /\ ctorOptions = Null
    /\ load = Null
    /\ scanHistory = <<>>
    /\ state = Null
    /\ searchInput = Null

\* scan: this.soundkits.clear(), and the outer loop starts
ScanStart ==
    /\ pc = "idle"
    /\ soundkits' = <<>>
    /\ i' = 1
    /\ pc' = "scan"
    /\ UNCHANGED <<config, fs, manifest, outputFile, log, filename, parsed>>
    /\ UNCHANGED <<accessorVars, scanHistory>>

\* scan: one iteration of the outer loop, from the await of readdir to its end
ScanDirectory ==
    /\ pc = "scan"
    /\ i <= Len(config.instruments)
    /\ soundkits' = ScanDirectoryKits(config, fs, soundkits, config.instruments[i])
    /\ log' = log \cup ScanDirectoryLog(config, fs, config.instruments[i])
    /\ i' = i + 1
    /\ UNCHANGED <<config, fs, pc, manifest, outputFile, filename, parsed>>
    /\ UNCHANGED <<accessorVars, scanHistory>>

\* scan: the forEach after the loop, and the return
ScanFinish ==
    /\ pc = "scan"
    /\ i > Len(config.instruments)
    /\ soundkits' = FinalizeKits(config, soundkits)
    /\ pc' = "scanned"
    /\ scanHistory' = Append(scanHistory, [tree |-> fs, kits |-> soundkits'])
    /\ UNCHANGED <<config, fs, i, manifest, outputFile, log, filename, parsed>>
    /\ UNCHANGED accessorVars

\* run: no kit was found, the empty manifest is built
RunEmpty ==
    /\ pc = "scanned"
    /\ Len(soundkits) = 0
    /\ manifest' = EmptyManifest(config)
    /\ pc' = "saving"
    /\ UNCHANGED <<config, fs, soundkits, i, outputFile, log, filename, parsed>>
    /\ UNCHANGED <<accessorVars, scanHistory>>

\* run: generateManifest
RunGenerate ==
    /\ pc = "scanned"
    /\ Len(soundkits) # 0
    /\ manifest' = generateManifest(config, soundkits)
    /\ pc' = "saving"
    /\ UNCHANGED <<config, fs, soundkits, i, outputFile, log, filename, parsed>>
    /\ UNCHANGED <<accessorVars, scanHistory>>

\* saveManifest: the manifest replaces the content of the output file
SaveManifest ==
    /\ pc = "saving"
    /\ outputFile' = manifest
    /\ pc' = "done"
    /\ UNCHANGED <<config, fs, soundkits, i, manifest, log, filename, parsed>>
    /\ UNCHANGED <<accessorVars, scanHistory>>

Next ==
    \/ ScanStart
    \/ ScanDirectory
    \/ ScanFinish
    \/ RunEmpty
    \/ RunGenerate
    \/ SaveManifest

Spec == Init /\ [][Next]_vars

----------------------------------------------------------------------------
(* Direct calls of parseFilename *)

\* the pieces a parseFilename argument is assembled from
NameTokens == {<<" ">>, <<"-">>, SEP, KitA, kick, <<"K","i","c","k">>}

ExtensionTokens == {<<>>, WAV, <<".","W","A","V">>}

RECURSIVE NameBodies(_)
NameBodies(n) ==
    IF n = 0 THEN {<<>>}
    ELSE LET shorter == NameBodies(n - 1)
         IN  shorter \cup {b \o t : b \in shorter, t \in NameTokens}

\* "Weird - Kit - hihat.wav"
WeirdKitHihat ==
    <<"W","e","i","r","d">> \o SEP \o <<"K","i","t">> \o SEP \o hihat \o WAV

\* "Odd File.wav"
OddFile == <<"O","d","d"," ","F","i","l","e">> \o WAV

ParseArguments(n) ==
    {b \o e : b \in NameBodies(n), e \in ExtensionTokens} \cup {WeirdKitHihat, OddFile}

\* the kit Map of a scanner that has scanned the Batman Begins tree
BatmanKits == ScanResult(CONFIG, BatmanTree, CONFIG.instruments)

InitParse ==
    /\ config = CONFIG
    /\ fs = BatmanTree
    /\ soundkits = BatmanKits
    /\ pc = "call"
    /\ i = 0
    /\ manifest = Null
    /\ outputFile = Null
    /\ log = {}
    /\ filename \in ParseArguments(MaxTokens)
    /\ parsed = Null
    /\ manager = Null
    /\ call = Null
    /\ ctorOptions = Null
    /\ load = Null
    /\ scanHistory = <<>>
    /\ state = Null
    /\ searchInput = Null

\* scanner.parseFilename(filename)
ParseFilename ==
    /\ pc = "call"
    /\ parsed' = parseFilename(config, filename)
    /\ log' = log \cup parseWarning(config, filename)
    /\ pc' = "returned"
    /\ UNCHANGED <<config, fs, soundkits, i, manifest, outputFile, filename>>
    /\ UNCHANGED <<accessorVars, scanHistory>>

NextParse == ParseFilename

SpecParse == InitParse /\ [][NextParse]_vars

----------------------------------------------------------------------------
(* Properties *)

ScanReturned == pc \in {"scanned", "saving", "done"}

\* every ordering of the elements of a finite set
RECURSIVE Orderings(_)
Orderings(S) ==
    IF S = {} THEN {<<>>}
    ELSE UNION {{<<x>> \o p : p \in Orderings(S \ {x})} : x \in S}

\* the readdir outcomes of a sequence of subdirectories, every listing in every order
RECURSIVE ReorderedOutcomes(_)
ReorderedOutcomes(outcomes) ==
    IF outcomes = <<>> THEN {<<>>}
    ELSE {<<[Head(outcomes) EXCEPT !.files = l]>> \o rest :
            l \in Orderings(Range(Head(outcomes).files)),
            rest \in ReorderedOutcomes(Tail(outcomes))}

\* the trees that hold the files of `tree`, listed in any order
ReorderedTrees(cfg, tree) ==
    {TreeOf(cfg, o) :
        o \in ReorderedOutcomes([k \in 1..Len(cfg.instruments) |-> tree[cfg.instruments[k]]])}

\* the positions at which filename splits as <name> " - " <tag> <extension>
SplitPositions(cfg, name) ==
    IF ~EndsWith(name, cfg.fileExtension) THEN {}
    ELSE {k \in 0..(Len(name) - Len(cfg.fileExtension) - 3) : SubSeq(name, k + 1, k + 3) = SEP}

NamePart(name, k) == SubSeq(name, 1, k)

TagPart(cfg, name, k) == SubSeq(name, k + 4, Len(name) - Len(cfg.fileExtension))

\* the files of subdirectory d that scan does not skip and the parser accepts
AcceptedFiles(cfg, tree, d) ==
    IF tree[d].code # "OK" THEN {}
    ELSE {f \in Range(tree[d].files) :
            ~StartsWith(f, <<".">>) /\ parseFilename(cfg, f) # Null}

\* C1: the kits scan returns are the same for every order in which the
\* subdirectories are visited and every order of the files in each listing.
C1_ScanOrderInsensitive ==
    ScanReturned =>
        \A order \in Orderings(Range(config.instruments)) :
            \A tree \in ReorderedTrees(config, fs) :
                Range(ScanResult(config, tree, order)) = Range(soundkits)

\* C2: a file name <name> " - " <tag> <extension> whose trimmed, lowercased tag
\* is in the vocabulary is split at its last separator, and parseFilename
\* returns the trimmed name and the trimmed, lowercased tag.
C2_ParseSplitsAtLastSeparator ==
    pc = "returned" =>
        /\ \A k \in SplitPositions(config, filename) :
              InSeq(config.instruments, ToLowerCase(Trim(TagPart(config, filename, k)))) =>
                /\ \A j \in SplitPositions(config, filename) : j <= k
                /\ parsed = [soundkitName |-> Trim(NamePart(filename, k)),
                             instrument   |-> ToLowerCase(Trim(TagPart(config, filename, k)))]
        /\ filename = WeirdKitHihat =>
              parsed = [soundkitName |-> <<"W","e","i","r","d">> \o SEP \o <<"K","i","t">>,
                        instrument   |-> hihat]

\* C2 witness: a name with two separators has been parsed into a kit name that
\* holds the first of them.
C2_Witness ==
    /\ pc = "returned"
    /\ Cardinality(SplitPositions(config, filename)) >= 2
    /\ parsed # Null
    /\ LastIndexOf(parsed.soundkitName, SEP) # -1

\* C3: parseFilename returns null for a name without the extension, without a
\* separator, or with a trailing tag outside the vocabulary, and leaves the
\* kit map as it was.
C3_ParseRejects ==
    pc = "returned" =>
        /\ soundkits = BatmanKits
        /\ ( \/ ~EndsWith(filename, config.fileExtension)
             \/ SplitPositions(config, filename) = {}
             \/ ~InSeq(config.instruments,
                       ToLowerCase(Trim(TagPart(config, filename,
                                                SetMax(SplitPositions(config, filename)))))) )
           => parsed = Null

\* C3 witness: a name with the extension and a separator was rejected for its tag.
C3_Witness ==
    /\ pc = "returned"
    /\ SplitPositions(config, filename) # {}
    /\ parsed = Null

\* C4: no two kits of a manifest have the same id.
C4_KitIdsDistinct ==
    manifest # Null =>
        \A a, b \in 1..Len(manifest.soundkits) :
            a # b => manifest.soundkits[a].id # manifest.soundkits[b].id

\* C5: every entry instruments[t] of a kit is the path d/f of a file f that is
\* not hidden, was found in subdirectory d, and parses to the kit's name and to t.
C5_RecordedUnderParsedTag ==
    ScanReturned =>
        \A k \in 1..Len(soundkits) :
            \A t \in DOMAIN soundkits[k].instruments :
                \E d \in Range(config.instruments) :
                    \E f \in AcceptedFiles(config, fs, d) :
                        /\ soundkits[k].instruments[t] = SamplePath(d, f)
                        /\ parseFilename(config, f) =
                              [soundkitName |-> soundkits[k].name, instrument |-> t]

\* strictly ascending by code units: sorted, and no element twice
StrictlyAscending(tags) ==
    \A k \in 1..(Len(tags) - 1) : CodeUnitLess(tags[k], tags[k + 1])

\* the kit names the accepted files of subdirectory d parse to
KitNamesIn(cfg, tree, d) ==
    {parseFilename(cfg, f).soundkitName : f \in AcceptedFiles(cfg, tree, d)}

\* C6: after scan, the keys of instruments are the elements of
\* availableInstruments, which is sorted ascending without duplicates.
C6_AvailableMatchesInstruments ==
    ScanReturned =>
        \A k \in 1..Len(soundkits) :
            /\ DOMAIN soundkits[k].instruments = Range(soundkits[k].availableInstruments)
            /\ StrictlyAscending(soundkits[k].availableInstruments)

\* C6 witness: scan has returned a kit to which two files of one subdirectory
\* contributed.
C6_Witness ==
    /\ ScanReturned
    /\ \E d \in Range(config.instruments) :
          \E f, g \in AcceptedFiles(config, fs, d) :
              /\ f # g
              /\ parseFilename(config, f).soundkitName = parseFilename(config, g).soundkitName

\* C7: completeness is |availableInstruments| / |vocabulary| * 100, lies in
\* [0, 100], and is 100 exactly when every vocabulary tag is available.
C7_CompletenessBounds ==
    ScanReturned =>
        \A k \in 1..Len(soundkits) :
            LET kit == soundkits[k]
                c   == kit.completeness
            IN  /\ RatLeq(Num(0), c) /\ RatLeq(c, Num(100))
                /\ c.num * Len(config.instruments) =
                      100 * Cardinality(Range(kit.availableInstruments)) * c.den
                /\ (c = Num(100)) <=>
                      (Range(kit.availableInstruments) = Range(config.instruments))

\* C7 witness: scan has returned a kit that holds every tag of the vocabulary.
C7_Witness ==
    /\ ScanReturned
    /\ \E k \in 1..Len(soundkits) :
          /\ soundkits[k].completeness = Num(100)
          /\ Range(soundkits[k].availableInstruments) = Range(config.instruments)

\* the Batman Begins kit of the example
BatmanKit ==
    [name                 |-> BatmanBegins,
     id                   |-> <<"b","a","t","m","a","n","-","b","e","g","i","n","s">>,
     instruments          |-> SetProperty(
                                 SetProperty(<<>>, kick, kick \o <<"/">> \o BatmanBegins \o SEP \o kick \o WAV),
                                 snare, snare \o <<"/">> \o BatmanBegins \o SEP \o snare \o WAV),
     completeness         |-> Num(25),
     availableInstruments |-> <<kick, snare>>]

\* C8: after scan there is exactly one kit per kit name found, and its
\* availableInstruments holds every subdirectory in which an accepted file of
\* that name was found; the Batman Begins tree yields the example's kit.
C8_ContributionsMerged ==
    ScanReturned =>
        /\ \A d \in Range(config.instruments) :
              \A n \in KitNamesIn(config, fs, d) :
                  /\ Cardinality({k \in 1..Len(soundkits) : soundkits[k].name = n}) = 1
                  /\ \A k \in 1..Len(soundkits) :
                        soundkits[k].name = n => d \in Range(soundkits[k].availableInstruments)
        /\ \A k \in 1..Len(soundkits) :
              \E d \in Range(config.instruments) : soundkits[k].name \in KitNamesIn(config, fs, d)
        /\ (config = CONFIG /\ fs = BatmanTree) => soundkits = <<BatmanKit>>

\* C8 witness: scan has returned over the Batman Begins tree.
C8_Witness ==
    /\ ScanReturned
    /\ config = CONFIG
    /\ fs = BatmanTree
    /\ Len(soundkits) = 1

\* C9: in the statistics of a manifest the coverage values sum to totalFiles,
\* which is the sum of the kits' |availableInstruments|; every vocabulary tag has
\* a coverage entry, the number of kits holding it; completeSoundkits is the
\* number of kits of completeness 100.
C9_StatisticsConsistent ==
    manifest # Null =>
        LET stats == manifest.statistics
            kits  == manifest.soundkits
            tags  == Range(config.instruments)
            \* the coverage values, enumerated along the vocabulary
            values == [k \in 1..Len(config.instruments) |->
                          stats.instrumentCoverage[config.instruments[k]]]
        IN  /\ DOMAIN stats.instrumentCoverage = tags
            /\ SumSeq(values) = stats.totalFiles
            /\ stats.totalFiles =
                  SumSeq([k \in 1..Len(kits) |-> Cardinality(Range(kits[k].availableInstruments))])
            /\ \A t \in tags :
                  stats.instrumentCoverage[t] =
                      Cardinality({k \in 1..Len(kits) : t \in Range(kits[k].availableInstruments)})
            /\ stats.completeSoundkits =
                  Cardinality({k \in 1..Len(kits) : kits[k].completeness = Num(100)})

\* C9 witness: a manifest with a complete kit has been generated.
C9_Witness ==
    /\ manifest # Null
    /\ manifest.statistics.completeSoundkits = 1
    /\ manifest.statistics.totalFiles = Len(config.instruments)

\* C10: a run whose scan finds no kit ends with a persisted manifest of 0 kits,
\* the full vocabulary, and statistics that are 0 throughout, with a coverage
\* entry of 0 for every vocabulary tag.
C10_EmptyRunPersistsManifest ==
    /\ (pc \in {"saving", "done"} /\ Len(soundkits) = 0) =>
          /\ manifest # Null
          /\ manifest.totalSoundkits = 0
          /\ manifest.soundkits = <<>>
          /\ manifest.instruments = config.instruments
          /\ manifest.statistics.totalFiles = 0
          /\ manifest.statistics.completeSoundkits = 0
          /\ manifest.statistics.averageCompleteness = Num(0)
          /\ DOMAIN manifest.statistics.instrumentCoverage = Range(config.instruments)
          /\ \A t \in Range(config.instruments) : manifest.statistics.instrumentCoverage[t] = 0
    /\ (pc = "scanned" /\ Len(soundkits) = 0) => ENABLED RunEmpty
    /\ pc = "saving" => ENABLED SaveManifest
    /\ pc = "done" => outputFile = manifest

\* C10 witness: a run over a tree that holds files, none of which yields a kit,
\* has persisted its manifest.
C10_Witness ==
    /\ pc = "done"
    /\ Len(soundkits) = 0
    /\ outputFile # Null
    /\ \E d \in Range(config.instruments) : fs[d].code = "OK" /\ fs[d].files # <<>>

----------------------------------------------------------------------------
(* scan() called again on the same scanner *)

\* the listing without its k-th file
WithoutFile(files, k) == SubSeq(files, 1, k - 1) \o SubSeq(files, k + 1, Len(files))

\* a file is deleted from the samples directory between two calls of scan
RemoveFile ==
    /\ pc = "scanned"
    /\ Len(scanHistory) < MaxScans
    /\ \E d \in Range(config.instruments) :
          /\ fs[d].code = "OK"
          /\ \E k \in 1..Len(fs[d].files) :
                fs' = [fs EXCEPT ![d].files = WithoutFile(fs[d].files, k)]
    /\ UNCHANGED <<config, soundkits, pc, i, manifest, outputFile, log, filename, parsed>>
    /\ UNCHANGED <<accessorVars, scanHistory>>

\* the second call entering the loop with the Map as the first call left it
ScanAgainWithoutClear ==
    /\ pc = "scanned"
    /\ Len(scanHistory) < MaxScans
    /\ i' = 1
    /\ pc' = "scan"
    /\ UNCHANGED <<config, fs, soundkits, manifest, outputFile, log, filename, parsed>>
    /\ UNCHANGED <<accessorVars, scanHistory>>

\* scan() called on a scanner whose earlier call has returned: clear, then the loop
ScanAgain ==
    /\ pc = "scanned"
    /\ Len(scanHistory) < MaxScans
    /\ soundkits' = <<>>
    /\ i' = 1
    /\ pc' = "scan"
    /\ UNCHANGED <<config, fs, manifest, outputFile, log, filename, parsed>>
    /\ UNCHANGED <<accessorVars, scanHistory>>

NextRescan ==
    \/ ScanStart
    \/ ScanDirectory
    \/ ScanFinish
    \/ RemoveFile
    \/ ScanAgain

\* kick/ lists "A - kick.wav" and "a - KICK.wav", snare/ lists "A - snare.wav",
\* hihat/ cannot be read
MixedCaseTree ==
    [d \in Range(SmallConfig.instruments) |->
        IF d = kick
        THEN ExistingDir(<<KitA \o SEP \o kick \o WAV, <<"a">> \o SEP \o <<"K","I","C","K">> \o WAV>>)
        ELSE IF d = snare THEN ExistingDir(<<KitA \o SEP \o snare \o WAV>>)
        ELSE FailingDir("EACCES")]

\* the trees a scanner is run on more than once; RemoveFile thins them out
RescanTrees(cfg) ==
    IF cfg = SmallConfig THEN {MixedCaseTree} ELSE {BatmanTree, FullKitTree, TwoKitsTree, JunkTree}

InitRescan ==
    /\ config \in {SmallConfig, CONFIG}
    /\ fs \in RescanTrees(config)
    /\ soundkits = <<>>
    /\ pc = "idle"
    /\ i = 0
    /\ manifest = Null
    /\ outputFile = Null
    /\ log = {}
    /\ filename = <<>>
    /\ parsed = Null
    /\ manager = Null
    /\ ctorOptions = Null
    /\ call = Null
    /\ load = Null
    /\ scanHistory = <<>>
    /\ state = Null
    /\ searchInput = Null

SpecRescan == InitRescan /\ [][NextRescan]_vars

\* C11: two calls of scan that read the same tree return identical kit records,
\* and every call returns what a scan of the tree it read yields from an empty
\* Map: nothing of an earlier call survives.
C11_RescanIdentical ==
    /\ \A a, b \in 1..Len(scanHistory) :
          scanHistory[a].tree = scanHistory[b].tree => scanHistory[a].kits = scanHistory[b].kits
    /\ \A a \in 1..Len(scanHistory) :
          scanHistory[a].kits = ScanResult(config, scanHistory[a].tree, config.instruments)

\* C11 witness: a second scan has returned after the files of a kit of the first
\* were removed.
C11_Witness ==
    /\ Len(scanHistory) = 2
    /\ scanHistory[1].kits # <<>>
    /\ \E k \in 1..Len(scanHistory[1].kits) :
          \A j \in 1..Len(scanHistory[2].kits) :
              scanHistory[2].kits[j].name # scanHistory[1].kits[k].name

\* a second scan of an unchanged tree that holds kits has returned
C11_UnchangedTreeRescanned ==
    /\ Len(scanHistory) = 2
    /\ scanHistory[1].tree = scanHistory[2].tree
    /\ scanHistory[1].kits # <<>>

----------------------------------------------------------------------------
(* SoundkitManager (index.js): constructor and lookup maps *)

\* the test for null / undefined, on a value that is a string or an object
\* otherwise; a record and a sequence are told apart by their printed forms
IsNull(v) == ToString(v) = ToString(Null)

\* a || b for a string-or-undefined a: undefined, null and '' are falsy
OrElse(a, b) == IF IsNull(a) THEN b ELSE IF a = <<>> THEN b ELSE a

Samples == <<"s","a","m","p","l","e","s">>

\* index of the last element of the array whose id is `id`
LastWithId(kits, id) == SetMax({k \in 1..Len(kits) : kits[k].id = id})

\* soundkitMap after the forEach: Map.set replaces the value of a key already set
SoundkitMapOf(kits) ==
    [id \in {kits[k].id : k \in 1..Len(kits)} |-> kits[LastWithId(kits, id)]]

\* the array of ids pushed for one instrument, kit after kit in manifest order
RECURSIVE IdsWithInstrument(_, _)
IdsWithInstrument(kits, instrument) ==
    IF kits = <<>> THEN <<>>
    ELSE [k \in 1..CountIn(kits[1].availableInstruments, instrument) |-> kits[1].id]
             \o IdsWithInstrument(Tail(kits), instrument)

\* _buildLookupMaps: an empty array per instrument of the manifest, then the pushes
SoundkitsByInstrumentOf(manifestData) ==
    [instrument \in Range(manifestData.instruments) |->
        IdsWithInstrument(manifestData.soundkits, instrument)]

\* new SoundkitManager(manifestData, options)
NewManager(manifestData, options) ==
    [manifest              |-> manifestData,
     baseUrl               |-> OrElse(options.baseUrl, OrElse(manifestData.baseUrl, <<>>)),
     samplesPath           |-> OrElse(options.samplesPath, Samples),
     soundkitMap           |-> SoundkitMapOf(manifestData.soundkits),
     soundkitsByInstrument |-> SoundkitsByInstrumentOf(manifestData)]

----------------------------------------------------------------------------
(* SoundkitManager: the accessors *)

getAllSoundkits(m) == m.manifest.soundkits

\* this.soundkitMap.get(soundkitId) || null
getSoundkit(m, soundkitId) ==
    IF soundkitId \in DOMAIN m.soundkitMap THEN m.soundkitMap[soundkitId] ELSE Null

\* s.includes(sub)
Includes(s, sub) ==
    \E k \in 0..(Len(s) - Len(sub)) : SubSeq(s, k + 1, k + Len(sub)) = sub

\* the predicate of find matching a name that contains the argument
NameMatchesPartly(kit, normalizedName) == Includes(ToLowerCase(kit.name), normalizedName)

\* kit => kit.name.toLowerCase() === normalizedName
NameMatches(kit, normalizedName) == ToLowerCase(kit.name) = normalizedName

\* array.find(...) || null on an array of kits
getSoundkitByName(m, name) ==
    LET normalizedName == ToLowerCase(name)
        kits == m.manifest.soundkits
        hits == {k \in 1..Len(kits) : NameMatches(kits[k], normalizedName)}
    IN  IF hits = {} THEN Null ELSE kits[SetMin(hits)]

getSoundkitsByInstrument(m, instrument) ==
    LET soundkitIds == IF instrument \in DOMAIN m.soundkitsByInstrument
                       THEN m.soundkitsByInstrument[instrument]
                       ELSE <<>>
    IN  [k \in 1..Len(soundkitIds) |-> m.soundkitMap[soundkitIds[k]]]

IsComplete(kit) == kit.completeness = Num(100)

getCompleteSoundkits(m) == SelectSeq(m.manifest.soundkits, IsComplete)

RECURSIVE FilterByQuery(_, _)
FilterByQuery(kits, normalizedQuery) ==
    IF kits = <<>> THEN <<>>
    ELSE (IF Includes(ToLowerCase(kits[1].name), normalizedQuery) THEN <<kits[1]>> ELSE <<>>)
             \o FilterByQuery(Tail(kits), normalizedQuery)

searchSoundkits(m, query) == FilterByQuery(m.manifest.soundkits, ToLowerCase(query))

\* the template literal joined without the base URL, whatever it is
SampleUrlWithoutBase(m, relativePath) == m.samplesPath \o <<"/">> \o relativePath

\* this.baseUrl ? `${baseUrl}/${samplesPath}/${relativePath}` : `${samplesPath}/${relativePath}`
SampleUrl(m, relativePath) ==
    IF m.baseUrl # <<>>
    THEN m.baseUrl \o <<"/">> \o m.samplesPath \o <<"/">> \o relativePath
    ELSE m.samplesPath \o <<"/">> \o relativePath

getSampleUrl(m, soundkitId, instrument) ==
    LET soundkit == getSoundkit(m, soundkitId)
    IN  IF soundkit = Null THEN Null
        ELSE IF instrument \notin DOMAIN soundkit.instruments THEN Null
        ELSE IF soundkit.instruments[instrument] = <<>> THEN Null
        ELSE SampleUrl(m, soundkit.instruments[instrument])

\* getSoundkitUrls: null, or the object instrument -> getSampleUrl
getSoundkitUrls(m, soundkitId) ==
    LET soundkit == getSoundkit(m, soundkitId)
    IN  IF soundkit = Null THEN Null
        ELSE [instrument \in DOMAIN soundkit.instruments |->
                 getSampleUrl(m, soundkitId, instrument)]

\* the comparator of getSoundkitsByCompleteness is positive: b must come before a
ComesBefore(b, a, ascending) ==
    IF ascending
    THEN ~RatLeq(a.completeness, b.completeness)
    ELSE ~RatLeq(b.completeness, a.completeness)

\* a kit inserted behind every kit it does not strictly precede
RECURSIVE InsertByCompleteness(_, _, _)
InsertByCompleteness(sorted, kit, ascending) ==
    IF sorted = <<>> THEN <<kit>>
    ELSE IF ComesBefore(kit, sorted[1], ascending) THEN <<kit>> \o sorted
    ELSE <<sorted[1]>> \o InsertByCompleteness(Tail(sorted), kit, ascending)

\* Array.prototype.sort with that comparator, a stable sort
RECURSIVE SortByCompleteness(_, _)
SortByCompleteness(kits, ascending) ==
    IF kits = <<>> THEN <<>>
    ELSE InsertByCompleteness(SortByCompleteness(SubSeq(kits, 1, Len(kits) - 1), ascending),
                              kits[Len(kits)], ascending)

\* the sort applied to this.manifest.soundkits itself
SortedInPlace(m, ascending) ==
    [m EXCEPT !.manifest.soundkits = SortByCompleteness(m.manifest.soundkits, ascending)]

\* the manager after getSoundkitsByCompleteness: the sort works on the copy
\* [...this.manifest.soundkits], the manifest's own array is left as it was
AfterSortByCompleteness(m, ascending) == m

getSoundkitsByCompleteness(m, ascending) == SortByCompleteness(m.manifest.soundkits, ascending)

----------------------------------------------------------------------------
(* A manager constructed over the manifest that run() wrote, and calls of    *)
(* its accessors.  The manifest is the JSON that saveManifest writes, parsed *)
(* again: strings, numbers, null, arrays and objects come back as written.   *)

\* the kit sets that a scan with configuration cfg returns
KitSets(cfg) == {ScanResult(cfg, tree, cfg.instruments) : tree \in Trees(cfg)}

\* the manifest that run() saves for the kits of a scan
ManifestOfRun(cfg, kits) ==
    IF Len(kits) = 0 THEN EmptyManifest(cfg) ELSE generateManifest(cfg, kits)

CustomBaseUrl == <<"https://cdn.example">>

CustomSamplesPath == <<"k","i","t","s">>

\* the options objects managers are constructed with: {}, {baseUrl: ''},
\* {baseUrl: custom}, {samplesPath: custom}
OptionsCount == 4

OptionsNumber(n) ==
    [baseUrl     |-> IF n = 2 THEN <<>> ELSE IF n = 3 THEN CustomBaseUrl ELSE Null,
     samplesPath |-> IF n = 4 THEN CustomSamplesPath ELSE Null]

tom == <<"t","o","m">>

\* kit names, ids, instrument tags and queries passed to the accessors
NamePool ==
    { KitA, <<"a">>, KitA \o SEP \o <<"B">>, <<"B">>, BatmanBegins,
      ToLowerCase(BatmanBegins), <<"Z">> }

IdPool == {generateId(name) : name \in NamePool}

TagPool == Range(CONFIG.instruments) \cup {tom}

UrlTagPool == {kick, snare, clap, tom}

QueryPool == { <<>>, <<"a">>, <<"B">>, <<"m","a","n">>, <<"z">> }

InitManager ==
    /\ \E cfg \in {SmallConfig, CONFIG} :
          \E kits \in KitSets(cfg), base \in {cfg.githubPagesBaseUrl, <<>>} :
              /\ config = [cfg EXCEPT !.githubPagesBaseUrl = base]
              /\ soundkits = kits
              /\ fs = EmptyTree(cfg)
    /\ manifest = ManifestOfRun(config, soundkits)
    /\ outputFile = manifest
    /\ \E n \in 1..OptionsCount :
          /\ ctorOptions = OptionsNumber(n)
          /\ manager = NewManager(manifest, ctorOptions)
    /\ pc = "ready"
    /\ i = 0
    /\ log = {}
    /\ filename = <<>>
    /\ parsed = Null
    /\ call = Null
    /\ load = Null
    /\ scanHistory = <<>>
    /\ state = Null
    /\ searchInput = Null

\* what no accessor touches
managerFrame == <<config, fs, soundkits, pc, i, manifest, outputFile, log, filename, parsed,
                  ctorOptions, load, scanHistory, catalogVars>>

GetAllSoundkits ==
    /\ pc = "ready"
    /\ call = Null
    /\ call' = [op |-> "getAllSoundkits", args |-> <<>>, result |-> getAllSoundkits(manager)]
    /\ UNCHANGED <<manager, managerFrame>>

GetSoundkit ==
    /\ pc = "ready"
    /\ call = Null
    /\ \E soundkitId \in IdPool :
          call' = [op |-> "getSoundkit", args |-> <<soundkitId>>,
                   result |-> getSoundkit(manager, soundkitId)]
    /\ UNCHANGED <<manager, managerFrame>>

GetSoundkitByName ==
    /\ pc = "ready"
    /\ call = Null
    /\ \E name \in NamePool :
          call' = [op |-> "getSoundkitByName", args |-> <<name>>,
                   result |-> getSoundkitByName(manager, name)]
    /\ UNCHANGED <<manager, managerFrame>>

GetSoundkitsByInstrument ==
    /\ pc = "ready"
    /\ call = Null
    /\ \E instrument \in TagPool :
          call' = [op |-> "getSoundkitsByInstrument", args |-> <<instrument>>,
                   result |-> getSoundkitsByInstrument(manager, instrument)]
    /\ UNCHANGED <<manager, managerFrame>>

GetCompleteSoundkits ==
    /\ pc = "ready"
    /\ call = Null
    /\ call' = [op |-> "getCompleteSoundkits", args |-> <<>>,
                result |-> getCompleteSoundkits(manager)]
    /\ UNCHANGED <<manager, managerFrame>>

SearchSoundkits ==
    /\ pc = "ready"
    /\ call = Null
    /\ \E query \in QueryPool :
          call' = [op |-> "searchSoundkits", args |-> <<query>>,
                   result |-> searchSoundkits(manager, query)]
    /\ UNCHANGED <<manager, managerFrame>>

GetSampleUrl ==
    /\ pc = "ready"
    /\ call = Null
    /\ \E soundkitId \in IdPool, instrument \in UrlTagPool :
          call' = [op |-> "getSampleUrl", args |-> <<soundkitId, instrument>>,
                   result |-> getSampleUrl(manager, soundkitId, instrument)]
    /\ UNCHANGED <<manager, managerFrame>>

GetSoundkitsByCompleteness ==
    /\ pc = "ready"
    /\ call = Null
    /\ \E ascending \in BOOLEAN :
          /\ call' = [op |-> "getSoundkitsByCompleteness", args |-> <<ascending>>,
                      result |-> getSoundkitsByCompleteness(manager, ascending)]
          /\ manager' = AfterSortByCompleteness(manager, ascending)
    /\ UNCHANGED managerFrame

\* the caller has taken the value returned and may call again
ReturnToCaller ==
    /\ pc = "ready"
    /\ call # Null
    /\ call' = Null
    /\ UNCHANGED <<manager, managerFrame>>

NextManager ==
    \/ GetAllSoundkits
    \/ GetSoundkit
    \/ GetSoundkitByName
    \/ GetSoundkitsByInstrument
    \/ GetCompleteSoundkits
    \/ SearchSoundkits
    \/ GetSampleUrl
    \/ GetSoundkitsByCompleteness
    \/ ReturnToCaller

SpecManager == InitManager /\ [][NextManager]_vars

\* the value is the same on both sides, null included
SameValue(a, b) == IF IsNull(a) THEN IsNull(b) ELSE IF IsNull(b) THEN FALSE ELSE a = b

\* the sequence holds exactly the elements of the set, each once
ListsExactlyOnce(s, elements) ==
    /\ Range(s) = elements
    /\ \A j, k \in 1..Len(s) : s[j] = s[k] => j = k

\* a.name.localeCompare(b.name) <= 0 for every adjacent pair
NameAscending(kits) ==
    \A k \in 1..(Len(kits) - 1) : localeCompare(kits[k].name, kits[k + 1].name) <= 0

\* C12: getAllSoundkits() of a manager loaded with the manifest generated from
\* an aggregated kit set returns exactly the aggregated kits, each exactly
\* once, in ascending order of name, and totalSoundkits is its length.
C12_GetAllIsKitSet ==
    (pc = "ready" /\ call # Null /\ call.op = "getAllSoundkits") =>
        /\ ListsExactlyOnce(call.result, Range(soundkits))
        /\ Len(call.result) = Len(soundkits)
        /\ NameAscending(call.result)
        /\ manager.manifest.totalSoundkits = Len(call.result)

\* C12 witness: getAllSoundkits has returned two kits that the scan had
\* aggregated in the other order.
C12_Witness ==
    /\ pc = "ready" /\ call # Null /\ call.op = "getAllSoundkits"
    /\ Len(call.result) = 2
    /\ call.result # soundkits

\* C13: getSoundkit(k.id) returns k for every kit k of the loaded manifest, and
\* null for an id that no kit of the manifest has.
C13_GetSoundkitReturnsKit ==
    (pc = "ready" /\ call # Null /\ call.op = "getSoundkit") =>
        LET kits == manager.manifest.soundkits
            held == {k \in 1..Len(kits) : kits[k].id = call.args[1]}
        IN  /\ \A k \in held : call.result = kits[k]
            /\ held = {} => call.result = Null

\* C14: getSoundkitsByInstrument(t) returns exactly the kits of the loaded
\* manifest whose availableInstruments contains t, each once and in manifest
\* order, and the empty array for a tag that no kit holds or that is not in
\* the vocabulary.
C14_ByInstrumentIsFilter ==
    (pc = "ready" /\ call # Null /\ call.op = "getSoundkitsByInstrument") =>
        LET kits == manager.manifest.soundkits
            held == {k \in 1..Len(kits) : InSeq(kits[k].availableInstruments, call.args[1])}
        IN  /\ Len(call.result) = Cardinality(held)
            /\ \A j \in 1..Len(call.result) :
                  \E k \in held :
                      /\ call.result[j] = kits[k]
                      /\ Cardinality({h \in held : h < k}) = j - 1

\* the URL the manager's constructor arguments determine for a relative path:
\* the base URL is the option if given, else the manifest's, else empty
ExpectedSampleUrl(relativePath) ==
    LET base == OrElse(ctorOptions.baseUrl, OrElse(manifest.baseUrl, <<>>))
        path == OrElse(ctorOptions.samplesPath, Samples)
    IN  IF base # <<>>
        THEN base \o <<"/">> \o path \o <<"/">> \o relativePath
        ELSE path \o <<"/">> \o relativePath

\* C15: getSampleUrl(kitId, tag) is null when no kit has the id or the kit has
\* no instruments entry for the tag; otherwise it is the kit's stored relative
\* path behind the samples path, and behind the effective base URL when that
\* is not empty.
C15_SampleUrlJoined ==
    (pc = "ready" /\ call # Null /\ call.op = "getSampleUrl") =>
        LET kits == manager.manifest.soundkits
            held == {k \in 1..Len(kits) : kits[k].id = call.args[1]}
        IN  /\ held = {} => IsNull(call.result)
            /\ \A k \in held :
                  IF call.args[2] \in DOMAIN kits[k].instruments
                  THEN SameValue(call.result,
                                 ExpectedSampleUrl(kits[k].instruments[call.args[2]]))
                  ELSE IsNull(call.result)

\* the indices of the kits whose name is the argument, letter case ignored
SameNameKits(kits, name) ==
    {k \in 1..Len(kits) : ToLowerCase(kits[k].name) = ToLowerCase(name)}

\* C16: getSoundkitByName(name) returns the first kit in manifest order whose
\* whole name equals the argument when letter case is ignored, and null when
\* there is none.
C16_ByNameFirstExactMatch ==
    (pc = "ready" /\ call # Null /\ call.op = "getSoundkitByName") =>
        LET kits == manager.manifest.soundkits
            hits == SameNameKits(kits, call.args[1])
        IN  /\ hits = {} => call.result = Null
            /\ hits # {} =>
                  \E k \in hits :
                      /\ call.result = kits[k]
                      /\ \A j \in hits : k <= j

\* C16 witness: the manifest holds two kits whose names differ only by case,
\* the call has returned the first of them, and its name is not spelled as
\* the argument is.
C16_Witness ==
    /\ pc = "ready" /\ call # Null /\ call.op = "getSoundkitByName"
    /\ Cardinality(SameNameKits(manager.manifest.soundkits, call.args[1])) = 2
    /\ call.result = manager.manifest.soundkits[1]
    /\ call.result.name # call.args[1]

\* the one-to-one maps of the indices of a sequence of n elements onto themselves
IndexPermutations(n) == {p \in [1..n -> 1..n] : \A j, k \in 1..n : p[j] = p[k] => j = k}

\* sorted is kits rearranged by completeness in the direction asked for, kits of
\* equal completeness in the order they have in kits
IsStableSortByCompleteness(sorted, kits, ascending) ==
    /\ Len(sorted) = Len(kits)
    /\ \E p \in IndexPermutations(Len(kits)) :
          /\ \A j \in 1..Len(kits) : sorted[j] = kits[p[j]]
          /\ \A j \in 1..(Len(kits) - 1) :
                LET a == sorted[j].completeness
                    b == sorted[j + 1].completeness
                IN  /\ IF ascending THEN RatLeq(a, b) ELSE RatLeq(b, a)
                    /\ a = b => p[j] < p[j + 1]

\* C17: getSoundkitsByCompleteness(ascending) returns the manifest's kits
\* rearranged by completeness in the direction asked for, kits of equal
\* completeness in manifest order; and whatever accessors have been called,
\* the manager still holds the manifest, in its stored order, and the index
\* maps that the constructor built.
C17_SortCopiesAndReadsOnly ==
    pc = "ready" =>
        /\ manager = NewManager(manifest, ctorOptions)
        /\ (call # Null /\ call.op = "getSoundkitsByCompleteness") =>
              IsStableSortByCompleteness(call.result, manifest.soundkits, call.args[1])

\* C17 witness: the call has returned the kits in another order than the
\* manifest stores them.
C17_Witness ==
    /\ pc = "ready" /\ call # Null /\ call.op = "getSoundkitsByCompleteness"
    /\ call.result # manifest.soundkits
    /\ manager.manifest.soundkits = manifest.soundkits

----------------------------------------------------------------------------
(* Failures during a scan *)

\* the tree with every subdirectory whose readdir fails replaced by an empty one
FailingAsEmpty(tree) ==
    [d \in DOMAIN tree |-> IF tree[d].code = "OK" THEN tree[d] ELSE ExistingDir(<<>>)]

ErrorLogged(instrument) == <<"error", "Error scanning folder", instrument>> \in log

\* C18: a subdirectory whose read fails does not abort scan(): the kits
\* returned are those of the tree with the failing subdirectories empty, and
\* an error is logged for a subdirectory exactly when its read failed with
\* another code than ENOENT.
C18_FailedDirectoryAsEmpty ==
    ScanReturned =>
        /\ soundkits = ScanResult(config, FailingAsEmpty(fs), config.instruments)
        /\ \A d \in Range(config.instruments) :
              ErrorLogged(d) <=> fs[d].code \notin {"OK", "ENOENT"}

\* C18 witness: scan() has returned a kit with the entries of the subdirectory
\* before and of the one after a subdirectory that could not be read, and the
\* failure is logged.
C18_Witness ==
    /\ ScanReturned
    /\ config = SmallConfig
    /\ fs[snare].code = "EACCES"
    /\ ErrorLogged(snare)
    /\ \E k \in 1..Len(soundkits) : DOMAIN soundkits[k].instruments = {kick, hihat}

\* a scan over a tree with a missing subdirectory between two that hold files
\* has returned
C18_MissingDirectorySkipped ==
    /\ ScanReturned
    /\ config = SmallConfig
    /\ fs[snare].code = "ENOENT"
    /\ ~ErrorLogged(snare)
    /\ \E k \in 1..Len(soundkits) : DOMAIN soundkits[k].instruments = {kick, hihat}

Unparseable(name) == parseFilename(config, name) = Null

Warned(name) ==
    \/ <<"warn", "Invalid filename format", name>> \in log
    \/ <<"warn", "Unknown instrument", name>> \in log

\* the listing without the names that parseFilename rejects
RECURSIVE ParseableOnly(_, _)
ParseableOnly(cfg, files) ==
    IF files = <<>> THEN <<>>
    ELSE (IF parseFilename(cfg, Head(files)) = Null THEN <<>> ELSE <<Head(files)>>)
             \o ParseableOnly(cfg, Tail(files))

\* the tree with the unparseable names taken out of every listing
WithoutUnparseable(cfg, tree) ==
    [d \in DOMAIN tree |-> [tree[d] EXCEPT !.files = ParseableOnly(cfg, tree[d].files)]]

\* the files that scan() has read
ListedFiles == UNION {Range(fs[d].files) : d \in {e \in Range(config.instruments) : fs[e].code = "OK"}}

\* the unparseable files leave no trace in the kits, and the other files of
\* the same and of the later subdirectories are processed
UnparseableContributeNothing ==
    soundkits = ScanResult(config, WithoutUnparseable(config, fs), config.instruments)

\* C19 as stated: after a scan, a warning is logged for every file whose name
\* is unparseable (wrong extension, missing separator, unrecognized tag), the
\* file contributes nothing to any kit, and the scan has gone on to the end.
C19_UnparseableWarned ==
    ScanReturned =>
        /\ \A name \in ListedFiles : Unparseable(name) => Warned(name)
        /\ UnparseableContributeNothing

\* C19 amended: after a scan, a warning is logged for an unparseable file
\* exactly when it has the required extension and is not hidden (its separator
\* is missing or its tag is unrecognized); a file with another extension and a
\* hidden file are skipped without a warning; no unparseable file contributes
\* to a kit, and the scan has gone on to the end.
C19_MalformedWarned ==
    ScanReturned =>
        /\ \A name \in ListedFiles :
              Unparseable(name) =>
                  (Warned(name) <=>
                      (EndsWith(name, config.fileExtension) /\ ~StartsWith(name, <<".">>)))
        /\ UnparseableContributeNothing

\* C19 witness: a scan has returned after a subdirectory listed a file that
\* was warned about, a file of another extension and a hidden unparseable
\* file, all before a sample that is recorded in a kit.
C19_Witness ==
    /\ ScanReturned
    /\ \E d \in Range(config.instruments) :
          /\ fs[d].code = "OK"
          /\ \E h, t, w, s \in 1..Len(fs[d].files) :
                /\ h < s /\ t < s /\ w < s
                /\ Unparseable(fs[d].files[h]) /\ StartsWith(fs[d].files[h], <<".">>)
                /\ ~Warned(fs[d].files[h])
                /\ ~EndsWith(fs[d].files[t], config.fileExtension) /\ ~Warned(fs[d].files[t])
                /\ Unparseable(fs[d].files[w]) /\ Warned(fs[d].files[w])
                /\ \E k \in 1..Len(soundkits) :
                      /\ d \in DOMAIN soundkits[k].instruments
                      /\ soundkits[k].instruments[d] = SamplePath(d, fs[d].files[s])

----------------------------------------------------------------------------
(* SoundkitManager.loadSoundkit: one fetch/decode chain per instrument *)

\* the AudioBuffer decoded from the bytes fetched at a URL
AudioBufferOf(url) == [decodedFrom |-> url]

TaskSettled(step) == step \in {"done", "failed"}

\* the kit sets managers are loaded with: the scans of the small vocabulary and
\* two of the example trees
LoadKitSets(cfg) ==
    IF cfg = SmallConfig THEN KitSets(cfg)
    ELSE {ScanResult(cfg, tree, cfg.instruments) : tree \in {BatmanTree, TwoKitsTree}}

InitLoad ==
    /\ \E cfg \in {SmallConfig, CONFIG} :
          \E kits \in LoadKitSets(cfg) :
              /\ config = cfg
              /\ soundkits = kits
              /\ fs = EmptyTree(cfg)
    /\ manifest = ManifestOfRun(config, soundkits)
    /\ outputFile = manifest
    /\ ctorOptions = OptionsNumber(1)
    /\ manager = NewManager(manifest, ctorOptions)
    /\ pc = "ready"
    /\ i = 0
    /\ log = {}
    /\ filename = <<>>
    /\ parsed = Null
    /\ call = Null
    /\ load = Null
    /\ scanHistory = <<>>
    /\ state = Null
    /\ searchInput = Null

loadFrame == <<config, fs, soundkits, pc, i, manifest, outputFile, filename, parsed,
               manager, ctorOptions, call, scanHistory, catalogVars>>

\* loadSoundkit up to its await: the throw for an unknown id, or one chain
\* started per entry of urls, each waiting for its fetch
LoadSoundkit ==
    /\ pc = "ready"
    /\ load = Null
    /\ \E soundkitId \in IdPool :
          LET urls == getSoundkitUrls(manager, soundkitId)
          IN  load' = IF urls = Null
                      THEN [soundkitId |-> soundkitId, status |-> "rejected",
                            urls |-> <<>>, tasks |-> <<>>, buffers |-> <<>>, result |-> Null]
                      ELSE [soundkitId |-> soundkitId, status |-> "pending",
                            urls |-> urls,
                            tasks |-> [instrument \in DOMAIN urls |-> "fetch"],
                            buffers |-> <<>>, result |-> Null]
    /\ UNCHANGED <<loadFrame, log>>

\* the catch of a chain, run when its fetch, arrayBuffer or decodeAudioData
\* rejects or its response is not ok: console.error, buffers[instrument] = null
TaskFails(instrument) ==
    /\ load' = [load EXCEPT !.tasks[instrument] = "failed",
                            !.buffers = SetProperty(load.buffers, instrument, Null)]
    /\ log' = log \cup {<<"error", "Error loading", instrument>>}

\* the fetch of one chain settles: a response that is ok, or a failure
FetchSettles ==
    /\ pc = "ready" /\ load # Null /\ load.status = "pending"
    /\ \E instrument \in DOMAIN load.tasks :
          /\ load.tasks[instrument] = "fetch"
          /\ \/ /\ load' = [load EXCEPT !.tasks[instrument] = "arrayBuffer"]
                /\ log' = log
             \/ TaskFails(instrument)
    /\ UNCHANGED loadFrame

\* response.arrayBuffer() of one chain settles
ArrayBufferSettles ==
    /\ pc = "ready" /\ load # Null /\ load.status = "pending"
    /\ \E instrument \in DOMAIN load.tasks :
          /\ load.tasks[instrument] = "arrayBuffer"
          /\ \/ /\ load' = [load EXCEPT !.tasks[instrument] = "decode"]
                /\ log' = log
             \/ TaskFails(instrument)
    /\ UNCHANGED loadFrame

\* decodeAudioData of one chain settles: buffers[instrument] = audioBuffer, or the catch
DecodeSettles ==
    /\ pc = "ready" /\ load # Null /\ load.status = "pending"
    /\ \E instrument \in DOMAIN load.tasks :
          /\ load.tasks[instrument] = "decode"
          /\ \/ /\ load' = [load EXCEPT
                               !.tasks[instrument] = "done",
                               !.buffers = SetProperty(load.buffers, instrument,
                                               AudioBufferOf(load.urls[instrument]))]
                /\ log' = log
             \/ TaskFails(instrument)
    /\ UNCHANGED loadFrame

\* await Promise.all(loadPromises) resumes: return buffers
LoadResolves ==
    /\ pc = "ready" /\ load # Null /\ load.status = "pending"
    /\ \A instrument \in DOMAIN load.tasks : TaskSettled(load.tasks[instrument])
    /\ load' = [load EXCEPT !.status = "resolved", !.result = load.buffers]
    /\ UNCHANGED <<loadFrame, log>>

NextLoad ==
    \/ LoadSoundkit
    \/ FetchSettles
    \/ ArrayBufferSettles
    \/ DecodeSettles
    \/ LoadResolves

SpecLoad == InitLoad /\ [][NextLoad]_vars

\* the mapping holds, for every chain that has settled and for no other, the
\* buffer decoded from the instrument's URL or null for a failed chain
BuffersMatchTasks(kit) ==
    /\ DOMAIN load.tasks = DOMAIN kit.instruments
    /\ DOMAIN load.buffers = {t \in DOMAIN load.tasks : TaskSettled(load.tasks[t])}
    /\ \A t \in DOMAIN load.buffers :
          IF load.tasks[t] = "done"
          THEN load.buffers[t] = AudioBufferOf(SampleUrl(manager, kit.instruments[t]))
          ELSE load.buffers[t] = Null

\* C20: loadSoundkit for a kit of the manifest, called with the kit's id,
\* starts one chain per entry of the kit's instruments; it is never rejected;
\* whatever the order in which the chains settle and whichever of them fail,
\* every settled chain has left exactly its own entry, the decoded buffer or
\* null, and the call resolves only when all have settled, with a mapping of
\* exactly one key per instrument of the kit.
C20_LoadSettlesPerInstrument ==
    (pc = "ready" /\ load # Null) =>
        \A k \in 1..Len(manager.manifest.soundkits) :
            manager.manifest.soundkits[k].id = load.soundkitId =>
                /\ load.status # "rejected"
                /\ BuffersMatchTasks(manager.manifest.soundkits[k])
                /\ load.status = "resolved" =>
                      /\ \A t \in DOMAIN load.tasks : TaskSettled(load.tasks[t])
                      /\ load.result = load.buffers
                      /\ DOMAIN load.result = DOMAIN manager.manifest.soundkits[k].instruments

----------------------------------------------------------------------------
(* The catalog page (soundkit-catalog.js): search, filter and sort over the  *)
(* kits of the manager.  Of the state object the audio fields are left out. *)

\* the state object as the script declares it
InitialCatalogState ==
    [allSoundkits      |-> <<>>,
     filteredSoundkits |-> <<>>,
     currentSort       |-> "name-asc",
     currentFilter     |-> "all",
     searchQuery       |-> <<>>]

\* the values of the options of the sort and of the filter select
SortOptions == {"name-asc", "name-desc", "completeness-desc", "completeness-asc"}

FilterOptions == {"all", "complete", "incomplete"}

\* a - b for two completeness values, as a sign
CompletenessDifference(a, b) ==
    IF a = b THEN 0 ELSE IF RatLeq(a, b) THEN -1 ELSE 1

\* the comparator that sortSoundkits passes to sort for a value of sortBy
SortComparator(sortBy, a, b) ==
    CASE sortBy = "name-asc"          -> localeCompare(a.name, b.name)
      [] sortBy = "name-desc"         -> localeCompare(b.name, a.name)
      [] sortBy = "completeness-desc" -> CompletenessDifference(b.completeness, a.completeness)
      [] sortBy = "completeness-asc"  -> CompletenessDifference(a.completeness, b.completeness)
      [] OTHER                        -> 0

\* a kit inserted behind every kit that the comparator does not put after it
RECURSIVE InsertSorted(_, _, _)
InsertSorted(sorted, kit, sortBy) ==
    IF sorted = <<>> THEN <<kit>>
    ELSE IF SortComparator(sortBy, kit, sorted[1]) < 0 THEN <<kit>> \o sorted
    ELSE <<sorted[1]>> \o InsertSorted(Tail(sorted), kit, sortBy)

\* Array.prototype.sort with that comparator, a stable sort
RECURSIVE StableSort(_, _)
StableSort(kits, sortBy) ==
    IF kits = <<>> THEN <<>>
    ELSE InsertSorted(StableSort(SubSeq(kits, 1, Len(kits) - 1), sortBy), kits[Len(kits)], sortBy)

\* sortSoundkits(sortBy): a copy of state.filteredSoundkits sorted and stored
sortSoundkits(st, sortBy) ==
    [st EXCEPT !.filteredSoundkits = StableSort(st.filteredSoundkits, sortBy)]

\* kit.availableInstruments.some(inst => inst.includes(query))
SomeInstrumentIncludes(kit, query) ==
    \E k \in 1..Len(kit.availableInstruments) : Includes(kit.availableInstruments[k], query)

\* the predicate of the search filter
MatchesSearch(kit, query) ==
    Includes(ToLowerCase(kit.name), query) \/ SomeInstrumentIncludes(kit, query)

\* array.filter(...) with the predicate of the search filter
RECURSIVE FilterBySearch(_, _)
FilterBySearch(kits, query) ==
    IF kits = <<>> THEN <<>>
    ELSE (IF MatchesSearch(kits[1], query) THEN <<kits[1]>> ELSE <<>>)
             \o FilterBySearch(Tail(kits), query)

\* kit.completeness === 100
CatalogComplete(kit) == kit.completeness = Num(100)

\* kit.completeness < 100
CatalogIncomplete(kit) == kit.completeness # Num(100) /\ RatLeq(kit.completeness, Num(100))

\* the switch on state.currentFilter
FilterByCompleteness(kits, currentFilter) ==
    CASE currentFilter = "complete"   -> SelectSeq(kits, CatalogComplete)
      [] currentFilter = "incomplete" -> SelectSeq(kits, CatalogIncomplete)
      [] OTHER                        -> kits

\* the two filters applied to an array of kits, then the sort
FilteredAndSorted(st, kits) ==
    LET searched == IF st.searchQuery # <<>>
                    THEN FilterBySearch(kits, ToLowerCase(st.searchQuery))
                    ELSE kits
        filtered == FilterByCompleteness(searched, st.currentFilter)
    IN  sortSoundkits([st EXCEPT !.filteredSoundkits = filtered], st.currentSort)

\* the filters applied to what the last filtering has left
filterSoundkitsOfFiltered(st) == FilteredAndSorted(st, st.filteredSoundkits)

\* filterSoundkits(): the filters applied to a copy of state.allSoundkits
filterSoundkits(st) == FilteredAndSorted(st, st.allSoundkits)

\* the full kit "A", Batman Begins with kick and snare, "A - B" with a kick
ThreeKitsTree ==
    [d \in Range(CONFIG.instruments) |->
        IF d = kick
        THEN ExistingDir(<<KitA \o SEP \o d \o WAV, BatmanBegins \o SEP \o d \o WAV,
                           KitA \o SEP \o <<"B">> \o SEP \o d \o WAV>>)
        ELSE IF d = snare
        THEN ExistingDir(<<KitA \o SEP \o d \o WAV, BatmanBegins \o SEP \o d \o WAV>>)
        ELSE ExistingDir(<<KitA \o SEP \o d \o WAV>>)]

\* the kit sets of the manifests the page is opened on
CatalogKitSets(cfg) ==
    IF cfg = SmallConfig THEN KitSets(cfg)
    ELSE KitSets(cfg) \cup {ScanResult(cfg, ThreeKitsTree, cfg.instruments)}

\* what is typed into the search box
SearchPool ==
    { <<>>, <<"a">>, <<"B">>, kick, <<"K","I","C","K">>, <<"n","a">>, <<"z">> }

\* the page loaded, its script not yet run
InitCatalog ==
    /\ \E cfg \in {SmallConfig, CONFIG} :
          \E kits \in CatalogKitSets(cfg) :
              /\ config = cfg
              /\ soundkits = kits
              /\ fs = EmptyTree(cfg)
    /\ manifest = ManifestOfRun(config, soundkits)
    /\ outputFile = manifest
    /\ ctorOptions = OptionsNumber(1)
    /\ manager = NewManager(manifest, ctorOptions)
    /\ pc = "page"
    /\ i = 0
    /\ log = {}
    /\ filename = <<>>
    /\ parsed = Null
    /\ call = Null
    /\ load = Null
    /\ scanHistory = <<>>
    /\ state = InitialCatalogState
    /\ searchInput = [value |-> <<>>, focused |-> FALSE]

catalogFrame == <<config, fs, soundkits, i, manifest, outputFile, log, filename, parsed,
                  manager, ctorOptions, call, load, scanHistory>>

\* initializeCatalog: the kits of the manager into the state, the first sort
InitializeCatalog ==
    /\ pc = "page"
    /\ LET allSoundkits == getAllSoundkits(manager)
       IN  state' = sortSoundkits([state EXCEPT !.allSoundkits = allSoundkits,
                                               !.filteredSoundkits = allSoundkits],
                                  state.currentSort)
    /\ pc' = "catalog"
    /\ UNCHANGED <<catalogFrame, searchInput>>

\* the listener of 'input' on the search box
SearchInput ==
    /\ pc = "catalog"
    /\ \E value \in SearchPool :
          /\ searchInput' = [value |-> value, focused |-> TRUE]
          /\ state' = filterSoundkits([state EXCEPT !.searchQuery = value])
    /\ UNCHANGED <<catalogFrame, pc>>

\* the listener of 'change' on the sort select
SortChange ==
    /\ pc = "catalog"
    /\ \E value \in SortOptions :
          state' = sortSoundkits([state EXCEPT !.currentSort = value], value)
    /\ UNCHANGED <<catalogFrame, pc, searchInput>>

\* the listener of 'change' on the filter select
FilterChange ==
    /\ pc = "catalog"
    /\ \E value \in FilterOptions :
          state' = filterSoundkits([state EXCEPT !.currentFilter = value])
    /\ UNCHANGED <<catalogFrame, pc, searchInput>>

\* the listener of 'keydown' for '/': the search box takes the focus
KeydownSlash ==
    /\ pc = "catalog"
    /\ ~searchInput.focused
    /\ searchInput' = [searchInput EXCEPT !.focused = TRUE]
    /\ UNCHANGED <<catalogFrame, pc, state>>

\* the listener of 'keydown' for Escape: with the focus in the search box the
\* box and the query are cleared, the kits filtered again, the focus given up
KeydownEscape ==
    /\ pc = "catalog"
    /\ IF searchInput.focused
       THEN /\ searchInput' = [value |-> <<>>, focused |-> FALSE]
            /\ state' = filterSoundkits([state EXCEPT !.searchQuery = <<>>])
       ELSE UNCHANGED <<searchInput, state>>
    /\ UNCHANGED <<catalogFrame, pc>>

NextCatalog ==
    \/ InitializeCatalog
    \/ SearchInput
    \/ SortChange
    \/ FilterChange
    \/ KeydownSlash
    \/ KeydownEscape

SpecCatalog == InitCatalog /\ [][NextCatalog]_vars

\* the kit matches the search: its name contains the query, letter case
\* ignored, or one of its instruments contains the lowercased query
KitMatchesQuery(kit, query) ==
    \/ query = <<>>
    \/ Includes(ToLowerCase(kit.name), ToLowerCase(query))
    \/ \E t \in Range(kit.availableInstruments) : Includes(t, ToLowerCase(query))

\* the kit passes the completeness filter
KitPassesFilter(kit, currentFilter) ==
    \/ currentFilter = "all"
    \/ currentFilter = "complete" /\ kit.completeness = Num(100)
    \/ currentFilter = "incomplete" /\ kit.completeness # Num(100)
                                    /\ RatLeq(kit.completeness, Num(100))

\* no kit of the sequence has to come before the kit in front of it
OrderedBy(kits, currentSort) ==
    \A k \in 1..(Len(kits) - 1) :
        CASE currentSort = "name-asc"  -> localeCompare(kits[k].name, kits[k + 1].name) <= 0
          [] currentSort = "name-desc" -> localeCompare(kits[k].name, kits[k + 1].name) >= 0
          [] currentSort = "completeness-asc" ->
                 RatLeq(kits[k].completeness, kits[k + 1].completeness)
          [] currentSort = "completeness-desc" ->
                 RatLeq(kits[k + 1].completeness, kits[k].completeness)

\* C21: once the catalog is initialised, whatever search, filter, sort and
\* Escape events have been handled, state.filteredSoundkits holds exactly the
\* kits of state.allSoundkits that match the search query and the completeness
\* filter, each once, in an order consistent with state.currentSort, and
\* state.allSoundkits is still the manifest's array of kits, in its order.
C21_FilteredIsMatchingSorted ==
    pc = "catalog" =>
        /\ state.allSoundkits = manifest.soundkits
        /\ ListsExactlyOnce(state.filteredSoundkits,
                            {kit \in Range(state.allSoundkits) :
                                 /\ KitMatchesQuery(kit, state.searchQuery)
                                 /\ KitPassesFilter(kit, state.currentFilter)})
        /\ OrderedBy(state.filteredSoundkits, state.currentSort)

\* C21 witness: with a query that is in no kit name, a completeness filter and
\* another sort than the first one, some kits are shown and some are not, and
\* the kits shown are in another order than the manifest has them.
C21_Witness ==
    /\ pc = "catalog"
    /\ state.searchQuery = kick
    /\ state.currentFilter = "incomplete"
    /\ state.currentSort = "completeness-desc"
    /\ Len(state.filteredSoundkits) = 2
    /\ Len(state.allSoundkits) = 3
    /\ state.filteredSoundkits[1] = state.allSoundkits[3]

----------------------------------------------------------------------------
(* The kits of a scan *)

\* C22: every kit that scan() returns has a name that is not empty, an id
\* that is not empty, and at least one available instrument, so a
\* completeness above 0.
C22_KitsNamedAndNonEmpty ==
    ScanReturned =>
        \A k \in 1..Len(soundkits) :
            /\ soundkits[k].name # <<>>
            /\ soundkits[k].id # <<>>
            /\ Len(soundkits[k].availableInstruments) >= 1
            /\ ~RatLeq(soundkits[k].completeness, Num(0))

====
